---------------------------- MODULE Spec2Model ----------------------------
(***************************************************************************)
(* Contract-parsing backend (backend/app/main.py): the in-memory job       *)
(* registry CONTRACTS, the file registry CONTRACT_FILES, the background    *)
(* coroutine process_contract and the HTTP handlers.                       *)
(*                                                                         *)
(* Python values are written as tagged records: None/null is JNull, a str  *)
(* is JStr(s), a number is JNum(v), a list is JList(xs), a dict met as a   *)
(* category value is JDict(vals) (only its values matter to the code).     *)
(* A key that a dict does not hold is Absent.  A float is an integer count *)
(* of 1/One, so 1.0 is One and 0.9 is 9000.                                *)
(***************************************************************************)
EXTENDS Integers, Sequences, FiniteSets, TLC

---------------------------------------------------------------------------
(* Bounds of the model *)

\* number of uploads that are accepted in one behaviour
MaxJobs == 2

---------------------------------------------------------------------------
(* Python / JSON values *)

Absent == [t |-> "absent"]
JNull == [t |-> "null"]
JStr(s) == [t |-> "str", s |-> s]
JNum(v) == [t |-> "num", v |-> v]
JList(xs) == [t |-> "list", xs |-> xs]
JDict(vals) == [t |-> "dict", vals |-> vals]

\* 1.0 in the fixed-point unit
One == 10000

\* a rational number n/d, d > 0 (a float that is not yet rounded)
Rat(n, d) == [n |-> n, d |-> d]
RatLess(a, b) == a.n * b.d < b.n * a.d
RatMax(a, b) == IF RatLess(a, b) THEN b ELSE a
RatMin(a, b) == IF RatLess(b, a) THEN b ELSE a

\* the integer nearest to p/q (q > 0), a tie going to the even neighbour:
\* Python's round() on a value that is exactly representable.  (On a decimal
\* tie that is not, the binary value of the float decides; the results drawn
\* below lead to no tie.)
RoundHalfEven(p, q) ==
    LET fl == p \div q
        r == p % q
    IN  IF 2 * r < q THEN fl
        ELSE IF 2 * r > q THEN fl + 1
        ELSE IF fl % 2 = 0 THEN fl ELSE fl + 1

\* round(x, 3) of the rational x, in units of 1/One
Round3(x) == 10 * RoundHalfEven(x.n * 1000, x.d)
\* round(s, 2) of s given in units of 1/One
Round2(s) == 100 * RoundHalfEven(s, 100)

\* str.strip() is empty: the strings the model uses are listed
StripIsEmpty(s) == s \in {"", " "}

\* float(x) of a confidence value: defined on numbers and numeric strings
FloatParses(x) ==
    \/ x.t = "num"
    \/ x.t = "str" /\ x.s \in {"0.8"}
FloatOf(x) == IF x.t = "num" THEN x.v ELSE 8000

---------------------------------------------------------------------------
(* Keys *)

CategoryKeys == <<"party_identification", "account_information",
                  "financial_details", "payment_structure",
                  "revenue_classification", "service_level_agreements">>

\* a variant with the two largest weights exchanged
weights_exchanged ==
    [financial_completeness |-> 25, party_identification |-> 30,
     payment_terms_clarity |-> 20, sla_definition |-> 15,
     contact_information |-> 10]

\* compute_contract_score.weights, in iteration order
weight_keys == <<"financial_completeness", "party_identification",
                 "payment_terms_clarity", "sla_definition",
                 "contact_information">>
weights == [financial_completeness |-> 30, party_identification |-> 25,
            payment_terms_clarity |-> 20, sla_definition |-> 15,
            contact_information |-> 10]

\* derive_confidence_and_gaps.mapping, in iteration order
mapping_keys == <<"financial_completeness", "party_identification",
                  "payment_terms_clarity", "sla_definition",
                  "contact_information">>
mapping == [financial_completeness |-> "financial_details",
            party_identification |-> "party_identification",
            payment_terms_clarity |-> "payment_structure",
            sla_definition |-> "service_level_agreements",
            contact_information |-> "account_information"]

ScoreKeys == {weight_keys[i] : i \in 1..Len(weight_keys)}

\* dict.get(key): None when the key is not held
Get(d, k) == IF d[k] = Absent THEN JNull ELSE d[k]
\* bool(x) of a Python value
Truthy(x) ==
    CASE x.t = "absent" -> FALSE
      [] x.t = "null" -> FALSE
      [] x.t = "str" -> x.s # ""
      [] x.t = "num" -> x.v # 0
      [] x.t = "list" -> Len(x.xs) > 0
      [] x.t = "dict" -> Len(x.vals) > 0
      [] OTHER -> TRUE

\* a confidence_scores dict: every scoring key maps to a value or is Absent
NoConf == [k \in ScoreKeys |-> Absent]
ConfDict(d) == [t |-> "conf", d |-> d]

---------------------------------------------------------------------------
(* compute_contract_score *)

\* value * weight and score += ... raise TypeError unless value is a number
ScoreValueOk(conf, k) == conf[k] = Absent \/ conf[k].t = "num"
compute_contract_score_raises(conf) == \E k \in ScoreKeys : ~ScoreValueOk(conf, k)

\* str(e) of that TypeError: the first key, in weights order, that raises
RECURSIVE ScoreMessage(_, _)
ScoreMessage(conf, i) ==
    IF ScoreValueOk(conf, weight_keys[i]) THEN ScoreMessage(conf, i + 1)
    ELSE IF conf[weight_keys[i]].t = "str"
    THEN "unsupported operand type(s) for +=: 'float' and 'str'"
    ELSE "unsupported operand type(s) for *: 'NoneType' and 'int'"

RECURSIVE WeightedSum(_, _)
WeightedSum(conf, i) ==
    IF i = 0 THEN 0
    ELSE LET key == weight_keys[i]
             value == IF conf[key] = Absent THEN 0 ELSE conf[key].v
         IN  WeightedSum(conf, i - 1) + value * weights[key]

compute_contract_score(conf) == Round2(WeightedSum(conf, Len(weight_keys)))

---------------------------------------------------------------------------
(* derive_confidence_and_gaps *)

\* v not in (None, "", [], {})
NonEmptyValue(v) ==
    ~ \/ v.t = "null"
      \/ v.t = "str" /\ v.s = ""
      \/ v.t = "list" /\ Len(v.xs) = 0
      \/ v.t = "dict" /\ Len(v.vals) = 0

\* sum(1 for v in val.values() if v not in (None, "", [], {}))
NonEmptyCount(vals) == Cardinality({i \in 1..Len(vals) : NonEmptyValue(vals[i])})

MaxOf(a, b) == IF a >= b THEN a ELSE b

\* the branch of lines 113-131 taken for the field value val: derived score
Derived(val) ==
    CASE val.t = "null" -> Rat(0, 1)
      [] val.t = "str" -> IF StripIsEmpty(val.s) THEN Rat(0, 1) ELSE Rat(9, 10)
      [] val.t = "dict" ->
           IF Len(val.vals) = 0 THEN Rat(0, 1)
           ELSE RatMin(Rat(1, 1),
                       Rat(NonEmptyCount(val.vals), MaxOf(1, Len(val.vals))))
      [] OTHER -> IF Truthy(val) THEN Rat(8, 10) ELSE Rat(0, 1)

\* a variant in which the str branch appends to gaps as well
IsGapOrBlank(val) ==
    \/ val.t = "null"
    \/ val.t = "dict" /\ Len(val.vals) = 0
    \/ val.t = "str" /\ StripIsEmpty(val.s)

\* the same branches: is field_key appended to gaps
IsGap(val) == val.t = "null" \/ (val.t = "dict" /\ Len(val.vals) = 0)

\* llm_conf = extracted.get("confidence_scores") or {}
LlmConf(extracted) ==
    LET c == Get(extracted, "confidence_scores")
    IN  IF c.t = "conf" THEN c.d ELSE NoConf

\* llm_val: float(llm_conf.get(score_key)) if score_key in llm_conf else None,
\* None as well when float() raises; Absent stands for None here
LlmVal(llm_conf, score_key) ==
    IF llm_conf[score_key] # Absent /\ FloatParses(llm_conf[score_key])
    THEN JNum(FloatOf(llm_conf[score_key]))
    ELSE Absent

\* a variant that leaves out the clamp of line 141
FinalScoreUnclamped(extracted, score_key) ==
    LET val == Get(extracted, mapping[score_key])
        derived == Derived(val)
        llm_val == LlmVal(LlmConf(extracted), score_key)
        final_score == IF llm_val = Absent THEN derived
                       ELSE RatMax(derived, Rat(llm_val.v, One))
    IN  Round3(final_score)

\* scores[score_key] of lines 139-142
FinalScore(extracted, score_key) ==
    LET val == Get(extracted, mapping[score_key])
        derived == Derived(val)
        llm_val == LlmVal(LlmConf(extracted), score_key)
        final_score == IF llm_val = Absent THEN derived
                       ELSE RatMax(derived, Rat(llm_val.v, One))
        clamped == RatMax(Rat(0, 1), RatMin(Rat(1, 1), final_score))
    IN  Round3(clamped)

RECURSIVE DerivedGaps(_, _)
DerivedGaps(extracted, i) ==
    IF i = 0 THEN <<>>
    ELSE LET field_key == mapping[mapping_keys[i]]
             rest == DerivedGaps(extracted, i - 1)
         IN  IF IsGap(Get(extracted, field_key))
             THEN Append(rest, field_key) ELSE rest

\* returns scores (a dict of numbers over the five keys) and gaps (a list)
derive_confidence_and_gaps(extracted) ==
    [scores |-> [k \in ScoreKeys |-> JNum(FinalScore(extracted, k))],
     gaps |-> DerivedGaps(extracted, Len(mapping_keys))]

---------------------------------------------------------------------------
(* Documents: the dicts the LLM calls return and the one a job stores *)

CategorySet == {CategoryKeys[i] : i \in 1..Len(CategoryKeys)}
DocKeys == CategorySet \cup {"confidence_scores", "gaps", "score"}
EmptyDoc == [k \in DocKeys |-> Absent]

\* what call_groq returns: json.loads gives a dict, or some other JSON value
Mapping(doc) == [t |-> "object", doc |-> doc]
IsMapping(r) == r.t = "object"

\* the installed pydantic: the source runs under major version 1 and 2
PydanticMajors == {1, 2}

\* class ExtractedContract: does ExtractedContract(**combined) validate.
\* A category is Optional[Dict[str, Any]] with no default: pydantic 1 fills
\* None for a missing one, pydantic 2 requires the key.
ValidCategory(v, major) ==
    IF v = Absent THEN major = 1 ELSE v.t \in {"null", "dict"}
ValidConfidence(c) ==
    \/ c = Absent
    \/ c = JNull
    \/ c.t = "conf" /\ \A k \in ScoreKeys : c.d[k] = Absent \/ FloatParses(c.d[k])
ValidGaps(g) == g = Absent \/ g = JNull \/ g.t = "list"
Validates(combined, major) ==
    /\ \A k \in CategorySet : ValidCategory(combined[k], major)
    /\ ValidConfidence(combined["confidence_scores"])
    /\ ValidGaps(combined["gaps"])

\* validated.dict(): the eight declared fields, defaults filled in, floats coerced
ValidatedDict(combined) ==
    [k \in DocKeys |->
        IF k \in CategorySet THEN Get(combined, k)
        ELSE IF k = "confidence_scores" THEN
            LET c == combined[k]
            IN  IF c = Absent THEN ConfDict(NoConf)
                ELSE IF c = JNull THEN JNull
                ELSE ConfDict([s \in ScoreKeys |->
                        IF c.d[s] = Absent THEN Absent ELSE JNum(FloatOf(c.d[s]))])
        ELSE IF k = "gaps" THEN
            (IF combined[k] = Absent THEN JList(<<>>) ELSE combined[k])
        ELSE Absent]

\* combined = {**extracted1, **extracted2}
Combine(extracted1, extracted2) ==
    [k \in DocKeys |-> IF extracted2[k] # Absent THEN extracted2[k] ELSE extracted1[k]]

\* lines 257-262: the validated dict, or combined itself on ValidationError
Extracted(combined, major) ==
    IF Validates(combined, major) THEN ValidatedDict(combined) ELSE combined

\* a variant with the two dicts of line 266 in the other order
MergedConfDerivedFirst(extracted) ==
    LET derived_scores == derive_confidence_and_gaps(extracted).scores
    IN  [k \in ScoreKeys |-> derived_scores[k]]

\* merged_conf = {**derived_scores, **(extracted.get("confidence_scores") or {})}
MergedConf(extracted) ==
    LET derived_scores == derive_confidence_and_gaps(extracted).scores
        present == LlmConf(extracted)
    IN  [k \in ScoreKeys |-> IF present[k] # Absent THEN present[k] ELSE derived_scores[k]]

\* a variant with the two operands of line 269 in the other order
MergedGapsPresentFirst(extracted) ==
    LET derived_gaps == derive_confidence_and_gaps(extracted).gaps
        present == IF extracted["gaps"] = Absent THEN JList(<<>>) ELSE extracted["gaps"]
    IN  IF Truthy(present) THEN present ELSE JList(derived_gaps)

\* derived_gaps or extracted.get("gaps", [])
MergedGaps(extracted) ==
    LET derived_gaps == derive_confidence_and_gaps(extracted).gaps
    IN  IF Len(derived_gaps) > 0 THEN JList(derived_gaps)
        ELSE IF extracted["gaps"] = Absent THEN JList(<<>>)
        ELSE extracted["gaps"]

\* lines 254-273 raise: ** of a non-mapping, or a confidence that is no number
MergeMessage(r1, r2, major) ==
    IF ~IsMapping(r1) \/ ~IsMapping(r2)
    THEN "'list' object is not a mapping"
    ELSE LET merged_conf == MergedConf(Extracted(Combine(r1.doc, r2.doc), major))
         IN  IF compute_contract_score_raises(merged_conf)
             THEN ScoreMessage(merged_conf, 1)
             ELSE "ok"
MergeRaises(r1, r2, major) == MergeMessage(r1, r2, major) # "ok"

\* a variant that scores the derived confidences, not the merged ones
FinalDocumentScoresDerived(r1, r2, major) ==
    LET extracted == Extracted(Combine(r1.doc, r2.doc), major)
        merged_conf == MergedConf(extracted)
        derived_scores == derive_confidence_and_gaps(extracted).scores
    IN  [extracted EXCEPT !["confidence_scores"] = ConfDict(merged_conf),
                          !["gaps"] = MergedGaps(extracted),
                          !["score"] = JNum(compute_contract_score(derived_scores))]

\* lines 254-273: the document that line 275 stores
FinalDocument(r1, r2, major) ==
    LET extracted == Extracted(Combine(r1.doc, r2.doc), major)
        merged_conf == MergedConf(extracted)
    IN  [extracted EXCEPT !["confidence_scores"] = ConfDict(merged_conf),
                          !["gaps"] = MergedGaps(extracted),
                          !["score"] = JNum(compute_contract_score(merged_conf))]

---------------------------------------------------------------------------
(* Inputs and outcomes of the collaborators *)

\* uploaded file names, as sequences of characters
Filenames == { <<"t", ".", "t", "x", "t">>,
               <<"s", ".", "p", "d", "f">>,
               <<"S", ".", "P", "D", "F">>,
               <<"p", "d", "f">>,
               <<"a", ".", "p", "d", "f", ".", "t", "x", "t">> }

\* str.lower() on the characters that occur
LowerChar(c) ==
    CASE c = "S" -> "s" [] c = "P" -> "p" [] c = "D" -> "d" [] c = "F" -> "f"
      [] OTHER -> c
Lower(name) == [i \in 1..Len(name) |-> LowerChar(name[i])]
EndsWith(name, suffix) ==
    /\ Len(name) >= Len(suffix)
    /\ SubSeq(name, Len(name) - Len(suffix) + 1, Len(name)) = suffix

\* messages of the exceptions extract_text_from_pdf raises
ExtractErrors == {"No /Root object! - Is this really a PDF?"}
\* messages of the exceptions call_groq raises (lines 196, 236)
GroqErrors == {"GROQ_API_KEY not configured", "No response from LLM."}

Conf(k, x) == ConfDict([NoConf EXCEPT ![k] = x])

\* results of the call for party_identification, account_information,
\* financial_details
Group1Full ==
    [EmptyDoc EXCEPT !["party_identification"] = JDict(<<JStr("ACME Corp")>>),
                     !["account_information"] = JDict(<<JStr("123 Main St")>>),
                     !["financial_details"] = JDict(<<JNum(1000 * One)>>),
                     !["confidence_scores"] = Conf("financial_completeness", JNum(8000))]
Group1BadConfidence ==
    [EmptyDoc EXCEPT !["party_identification"] = JDict(<<JStr("ACME Corp"), JNull>>),
                     !["account_information"] = JDict(<<JStr("123 Main St"), JNull, JStr("")>>),
                     !["confidence_scores"] = Conf("party_identification", JStr("high"))]
Group1Results == {Mapping(Group1Full), Mapping(Group1BadConfidence), JList(<<>>)}

\* results of the call for payment_structure, revenue_classification,
\* service_level_agreements
Group2Full ==
    [EmptyDoc EXCEPT !["payment_structure"] = JDict(<<JStr("Net 30")>>),
                     !["revenue_classification"] = JDict(<<JStr("recurring")>>),
                     !["service_level_agreements"] = JDict(<<JStr("99.9")>>)]
Group2NullGaps ==
    [Group2Full EXCEPT !["gaps"] = JNull,
                       !["confidence_scores"] = Conf("sla_definition", JNum(3333))]
Group2Partial ==
    [EmptyDoc EXCEPT !["payment_structure"] = JStr("Net 30"),
                     !["service_level_agreements"] = JDict(<<>>),
                     !["confidence_scores"] = Conf("payment_terms_clarity", JNum(6000))]
Group2Results == {Mapping(Group2Full), Mapping(Group2NullGaps), Mapping(Group2Partial)}

---------------------------------------------------------------------------
(* State *)

VARIABLES
    CONTRACTS,        \* the job registry: contract_id -> job record
    CONTRACT_FILES,   \* contract_id -> path of the stored upload
    disk,             \* the paths that exist under UPLOAD_DIR
    runs,             \* the process_contract coroutines handed to BackgroundTasks
    response,         \* the HTTP response the latest step sent, if it sent one
    call              \* a call made to a helper directly, as the tests make them

vars == <<CONTRACTS, CONTRACT_FILES, disk, runs, response, call>>

UPLOAD_DIR == "uploaded_contracts"

\* the values uuid.uuid4() yields; UnknownId is one it never yields here
JobIds == 1..MaxJobs
UnknownId == 0
RequestIds == JobIds \cup {UnknownId}

Statuses == {"pending", "processing", "completed", "failed"}
\* the status query parameter of GET /contracts: None, or a string
StatusFilters == {JNull, JStr("")} \cup {JStr(st) : st \in Statuses}

NoResponse == [kind |-> "none"]
\* no helper is being called directly
NoCall == [fn |-> "none"]
HTTPException(status_code, detail) ==
    [kind |-> "error", status_code |-> status_code, detail |-> detail]

FilePath(contract_id) == [dir |-> UPLOAD_DIR, name |-> contract_id, ext |-> ".pdf"]

---------------------------------------------------------------------------
(* Writes to the registry *)

\* lines 291-297
NewJob ==
    [status |-> "pending", progress |-> 0, data |-> JNull, error |-> JNull,
     created_at |-> "2025-09-07T00:00:00Z"]

\* a variant that leaves out line 241
StartedWithoutProgress(job) == [job EXCEPT !.status = "processing"]

\* lines 240-241
Started(job) == [job EXCEPT !.status = "processing", !.progress = 10]

\* a variant that writes 4 for 40
TextExtractedTypo(job) == [job EXCEPT !.progress = 4]

\* line 244
TextExtracted(job) == [job EXCEPT !.progress = 40]

\* a variant that leaves out line 275
CompletedWithoutData(job, extracted) ==
    [job EXCEPT !.status = "completed", !.progress = 100]

\* lines 275-277
Completed(job, extracted) ==
    [job EXCEPT !.data = extracted, !.status = "completed", !.progress = 100]

\* a variant that puts the job back in the queue
FailedRetries(job, message) ==
    [job EXCEPT !.status = "pending", !.error = JStr(message), !.progress = 100]
\* a variant that leaves out line 280
FailedWithoutError(job, message) ==
    [job EXCEPT !.status = "failed", !.progress = 100]
\* a variant that leaves out line 281
FailedKeepsProgress(job, message) ==
    [job EXCEPT !.status = "failed", !.error = JStr(message)]

\* a variant whose handler swallows the exception
FailedUnrecorded(job, message) == job

\* lines 278-281: except Exception as e
Failed(job, message) ==
    [job EXCEPT !.status = "failed", !.error = JStr(message), !.progress = 100]

\* background_tasks.add_task(process_contract, contract_id, file_path): a run
\* holds the arguments, the place it has reached, its local extracted1, and
\* the number of call_groq calls it has made and of those that returned
NewRun(contract_id, file_path) ==
    [contract_id |-> contract_id, file_path |-> file_path, pc |-> "start",
     extracted1 |-> JNull, calls |-> 0, returned |-> 0]
AddTask(tasks, contract_id, file_path) == tasks \cup {NewRun(contract_id, file_path)}

\* a variant that goes back to the first call_groq call
ReturnToGroup1(r) == [r EXCEPT !.pc = "group1", !.extracted1 = JNull]

\* the coroutine returned: its frame is gone
Return(r) == [r EXCEPT !.pc = "done", !.extracted1 = JNull]

Step(r, next) == runs' = (runs \ {r}) \cup {next}

---------------------------------------------------------------------------
(* POST /contracts/upload *)

\* a variant that leaves out .lower()
IsPdfNameCaseSensitive(filename) == EndsWith(filename, <<".", "p", "d", "f">>)

\* line 285
IsPdfName(filename) == EndsWith(Lower(filename), <<".", "p", "d", "f">>)

upload_contract_rejected(filename) ==
    /\ ~IsPdfName(filename)
    /\ response' = HTTPException(400, "Only PDF files are supported.")
    /\ UNCHANGED <<CONTRACTS, CONTRACT_FILES, disk, runs, call>>

\* a variant that leaves out line 298
upload_contract_without_file_entry(filename, contract_id) ==
    /\ IsPdfName(filename)
    /\ contract_id \notin DOMAIN CONTRACTS
    /\ LET file_path == FilePath(contract_id)
       IN  /\ disk' = disk \cup {file_path}
           /\ CONTRACTS' = (contract_id :> NewJob) @@ CONTRACTS
           /\ runs' = AddTask(runs, contract_id, file_path)
    /\ response' = [kind |-> "upload", status_code |-> 200, contract_id |-> contract_id]
    /\ UNCHANGED <<CONTRACT_FILES, call>>

upload_contract_accepted(filename, contract_id) ==
    /\ IsPdfName(filename)
    /\ contract_id \notin DOMAIN CONTRACTS
    /\ LET file_path == FilePath(contract_id)
       IN  /\ disk' = disk \cup {file_path}
           /\ CONTRACTS' = (contract_id :> NewJob) @@ CONTRACTS
           /\ CONTRACT_FILES' = (contract_id :> file_path) @@ CONTRACT_FILES
           /\ runs' = AddTask(runs, contract_id, file_path)
    /\ response' = [kind |-> "upload", status_code |-> 200, contract_id |-> contract_id]
    /\ UNCHANGED call

upload_contract ==
    \E filename \in Filenames :
        \/ upload_contract_rejected(filename)
        \/ \E contract_id \in JobIds : upload_contract_accepted(filename, contract_id)

---------------------------------------------------------------------------
(* process_contract: the coroutine runs without interruption from one      *)
(* collaborator call to the next; a step of it answers no HTTP request     *)

\* a variant in which the jobs share one record
RecordEvery(contract_id, job) == CONTRACTS' = [id \in DOMAIN CONTRACTS |-> job]

Record(contract_id, job) == CONTRACTS' = [CONTRACTS EXCEPT ![contract_id] = job]

\* lines 240-241
process_begin(r) ==
    /\ r.pc = "start"
    /\ Record(r.contract_id, Started(CONTRACTS[r.contract_id]))
    /\ Step(r, [r EXCEPT !.pc = "extract"])
    /\ response' = NoResponse
    /\ UNCHANGED <<CONTRACT_FILES, disk, call>>

\* lines 243-244, extract_text_from_pdf returning or raising
process_extract_text(r) ==
    /\ r.pc = "extract"
    /\ \/ /\ Record(r.contract_id, TextExtracted(CONTRACTS[r.contract_id]))
          /\ Step(r, [r EXCEPT !.pc = "group1"])
       \/ \E message \in ExtractErrors :
            /\ Record(r.contract_id, Failed(CONTRACTS[r.contract_id], message))
            /\ Step(r, Return(r))
    /\ response' = NoResponse
    /\ UNCHANGED <<CONTRACT_FILES, disk, call>>

\* line 250, call_groq returning or raising
process_call_group1(r) ==
    /\ r.pc = "group1"
    /\ \/ \E result \in Group1Results :
            /\ Step(r, [r EXCEPT !.pc = "group2", !.extracted1 = result,
                                 !.calls = @ + 1, !.returned = @ + 1])
            /\ UNCHANGED CONTRACTS
       \/ \E message \in GroqErrors :
            /\ Record(r.contract_id, Failed(CONTRACTS[r.contract_id], message))
            /\ Step(r, Return([r EXCEPT !.calls = @ + 1]))
    /\ response' = NoResponse
    /\ UNCHANGED <<CONTRACT_FILES, disk, call>>

\* line 251, call_groq returning or raising; on its return lines 254-277 run
\* to the end, or to the handler of lines 278-281 when one of them raises
process_call_group2(r) ==
    /\ r.pc = "group2"
    /\ \/ \E message \in GroqErrors :
            /\ Record(r.contract_id, Failed(CONTRACTS[r.contract_id], message))
            /\ Step(r, Return([r EXCEPT !.calls = @ + 1]))
       \/ \E result \in Group2Results, major \in PydanticMajors :
            LET job == CONTRACTS[r.contract_id]
                extracted2 == result
            IN  /\ IF MergeRaises(r.extracted1, extracted2, major)
                   THEN Record(r.contract_id,
                               Failed(job, MergeMessage(r.extracted1, extracted2, major)))
                   ELSE Record(r.contract_id,
                               Completed(job, FinalDocument(r.extracted1, extracted2, major)))
                /\ Step(r, Return([r EXCEPT !.calls = @ + 1, !.returned = @ + 1]))
    /\ response' = NoResponse
    /\ UNCHANGED <<CONTRACT_FILES, disk, call>>

process_contract_begin == \E r \in runs : process_begin(r)
process_contract_extract_text == \E r \in runs : process_extract_text(r)
process_contract_call_group1 == \E r \in runs : process_call_group1(r)
process_contract_call_group2 == \E r \in runs : process_call_group2(r)

process_contract ==
    \/ process_contract_begin
    \/ process_contract_extract_text
    \/ process_contract_call_group1
    \/ process_contract_call_group2

---------------------------------------------------------------------------
(* The read endpoints: what each handler answers in the current state *)

Known(contract_id) == contract_id \in DOMAIN CONTRACTS

\* GET /contracts/{contract_id}/status
ContractStatus(contract_id) ==
    IF ~Known(contract_id) THEN HTTPException(404, "Contract not found.")
    ELSE LET contract == CONTRACTS[contract_id]
         IN  [kind |-> "status", status_code |-> 200, contract_id |-> contract_id,
              status |-> contract.status, progress |-> contract.progress,
              error |-> contract.error]

\* class ContractData: confidence_scores is Dict[str, float], gaps is
\* List[str], score is float; the constructor raises ValidationError otherwise
ContractDataValidates(confidence_scores, gaps, score) ==
    /\ confidence_scores.t = "conf"
    /\ \A k \in ScoreKeys :
          confidence_scores.d[k] = Absent \/ FloatParses(confidence_scores.d[k])
    /\ gaps.t = "list"
    /\ FloatParses(score)

\* GET /contracts/{contract_id}
ContractData(contract_id) ==
    IF ~Known(contract_id) THEN HTTPException(404, "Contract not found.")
    ELSE IF CONTRACTS[contract_id].status # "completed"
    THEN HTTPException(400, "Contract processing not complete.")
    ELSE LET data == CONTRACTS[contract_id].data
             confidence_scores == IF data["confidence_scores"] = Absent
                                  THEN ConfDict(NoConf) ELSE data["confidence_scores"]
             gaps == IF data["gaps"] = Absent THEN JList(<<>>) ELSE data["gaps"]
             score == IF data["score"] = Absent THEN JNum(0) ELSE data["score"]
         IN  IF ~ContractDataValidates(confidence_scores, gaps, score)
             THEN HTTPException(500, "Internal Server Error")
             ELSE [kind |-> "data", status_code |-> 200, contract_id |-> contract_id,
                   data |-> [k \in CategorySet |-> Get(data, k)],
                   confidence_scores |-> confidence_scores,
                   gaps |-> gaps, score |-> score]

\* the item list_contracts appends for one job
ContractListItem(cid) ==
    LET c == CONTRACTS[cid]
    IN  [contract_id |-> cid, status |-> c.status, created_at |-> c.created_at,
         score |-> IF c.data # JNull THEN Get(c.data, "score") ELSE JNull]

\* a variant that ignores the status parameter
ContractListUnfiltered(status) ==
    [kind |-> "list", status_code |-> 200,
     items |-> {ContractListItem(cid) : cid \in DOMAIN CONTRACTS}]

\* GET /contracts; the items are given as a set, their order left out
ContractList(status) ==
    [kind |-> "list", status_code |-> 200,
     items |-> {ContractListItem(cid) :
                  cid \in {c \in DOMAIN CONTRACTS :
                             ~(Truthy(status) /\ CONTRACTS[c].status # status.s)}}]

\* GET /contracts/{contract_id}/download
FileDownload(contract_id) ==
    IF contract_id \notin DOMAIN CONTRACT_FILES
          \/ CONTRACT_FILES[contract_id] \notin disk
    THEN HTTPException(404, "File not found.")
    ELSE [kind |-> "file", status_code |-> 200, path |-> CONTRACT_FILES[contract_id],
          media_type |-> "application/pdf", filename |-> contract_id]

get_contract_status ==
    /\ \E contract_id \in RequestIds : response' = ContractStatus(contract_id)
    /\ UNCHANGED <<CONTRACTS, CONTRACT_FILES, disk, runs, call>>

get_contract_data ==
    /\ \E contract_id \in RequestIds : response' = ContractData(contract_id)
    /\ UNCHANGED <<CONTRACTS, CONTRACT_FILES, disk, runs, call>>

list_contracts ==
    /\ \E status \in StatusFilters : response' = ContractList(status)
    /\ UNCHANGED <<CONTRACTS, CONTRACT_FILES, disk, runs, call>>

download_contract ==
    /\ \E contract_id \in RequestIds : response' = FileDownload(contract_id)
    /\ UNCHANGED <<CONTRACTS, CONTRACT_FILES, disk, runs, call>>

---------------------------------------------------------------------------
(* The system *)

Init ==
    /\ CONTRACTS = <<>>
    /\ CONTRACT_FILES = <<>>
    /\ disk = {}
    /\ runs = {}
    /\ response = NoResponse
    /\ call = NoCall

Next ==
    \/ upload_contract
    \/ process_contract_begin
    \/ process_contract_extract_text
    \/ process_contract_call_group1
    \/ process_contract_call_group2
    \/ get_contract_status
    \/ get_contract_data
    \/ list_contracts
    \/ download_contract

Spec == Init /\ [][Next]_vars

\* the next step of the run scheduled for one job
RunStep(contract_id) ==
    \E r \in runs :
        /\ r.contract_id = contract_id
        /\ \/ process_begin(r)
           \/ process_extract_text(r)
           \/ process_call_group1(r)
           \/ process_call_group2(r)

\* BackgroundTasks starts every task it was given, the event loop resumes
\* every coroutine whose awaited call has ended, and extract_text_from_pdf and
\* call_groq are taken to end, by returning or by raising
FairSpec == Spec /\ \A contract_id \in JobIds : WF_vars(RunStep(contract_id))

---------------------------------------------------------------------------
(* Properties of the job state machine *)

Jobs == DOMAIN CONTRACTS
\* the run that was scheduled for a job
RunOf(contract_id) == CHOOSE r \in runs : r.contract_id = contract_id

AllowedTransitions == {<<"pending", "processing">>, <<"processing", "completed">>,
                       <<"processing", "failed">>}

\* C1: in every step, whichever handler or coroutine takes it, a job's status
\* either stays as it is or moves pending -> processing, processing ->
\* completed or processing -> failed; so a completed or failed job keeps its
\* status, and no job leaves the registry.
C1_StatusTransitions ==
    [][\A id \in Jobs :
          /\ id \in DOMAIN CONTRACTS'
          /\ \/ CONTRACTS'[id].status = CONTRACTS[id].status
             \/ <<CONTRACTS[id].status, CONTRACTS'[id].status>> \in AllowedTransitions]_vars

\* one job has completed and another has failed
C1_Witness ==
    \E a, b \in Jobs : CONTRACTS[a].status = "completed" /\ CONTRACTS[b].status = "failed"

\* C2: a job's data is non-null exactly when its status is completed.
C2_DataIffCompleted ==
    \A id \in Jobs : (CONTRACTS[id].data # JNull) <=> (CONTRACTS[id].status = "completed")

\* a completed job that holds a document, next to a job that holds none
C2_Witness ==
    \E a, b \in Jobs :
        /\ CONTRACTS[a].status = "completed" /\ CONTRACTS[a].data # JNull
        /\ CONTRACTS[b].status # "completed" /\ CONTRACTS[b].data = JNull

\* C3: a job's error is non-null exactly when its status is failed.
C3_ErrorIffFailed ==
    \A id \in Jobs : (CONTRACTS[id].error # JNull) <=> (CONTRACTS[id].status = "failed")

\* a failed job that holds a message, next to a job that holds none
C3_Witness ==
    \E a, b \in Jobs :
        /\ CONTRACTS[a].status = "failed" /\ CONTRACTS[a].error # JNull
        /\ CONTRACTS[b].status # "failed" /\ CONTRACTS[b].error = JNull

\* C4: progress is an integer in 0..100 when a job is created and after every
\* step, and no step lowers the progress of a job.
C4_ProgressMonotone ==
    [][/\ \A id \in DOMAIN CONTRACTS' : CONTRACTS'[id].progress \in 0..100
       /\ \A id \in Jobs :
             /\ id \in DOMAIN CONTRACTS'
             /\ CONTRACTS'[id].progress >= CONTRACTS[id].progress]_vars

\* a job whose progress has risen to 40, next to one that has reached 100
C4_Witness ==
    \E a, b \in Jobs : CONTRACTS[a].progress = 40 /\ CONTRACTS[b].progress = 100

\* C9: pending goes with progress 0, processing with 10 before
\* extract_text_from_pdf has returned and with 40 after it, completed and
\* failed with 100.
C9_StatusProgressPairs ==
    \A id \in Jobs :
        LET job == CONTRACTS[id]
            pc == RunOf(id).pc
        IN  /\ job.status = "pending" => job.progress = 0 /\ pc = "start"
            /\ job.status = "processing" =>
                  \/ job.progress = 10 /\ pc = "extract"
                  \/ job.progress = 40 /\ pc \in {"group1", "group2"}
            /\ job.status = "completed" => job.progress = 100 /\ pc = "done"
            /\ job.status = "failed" => job.progress = 100 /\ pc = "done"

\* one job is processing at 10 while another is processing at 40
C9_Witness ==
    \E a, b \in Jobs :
        /\ CONTRACTS[a].status = "processing" /\ CONTRACTS[a].progress = 10
        /\ CONTRACTS[b].status = "processing" /\ CONTRACTS[b].progress = 40

---------------------------------------------------------------------------
(* Properties of a run's outcome *)

\* str(e) of what lines 254-273 raise
MergeErrors == {"'list' object is not a mapping",
                "unsupported operand type(s) for +=: 'float' and 'str'",
                "unsupported operand type(s) for *: 'NoneType' and 'int'"}

\* the messages a run can fail with at the place pc
RaisedAt(pc) ==
    CASE pc = "extract" -> ExtractErrors
      [] pc = "group1" -> GroqErrors
      [] pc = "group2" -> GroqErrors \cup MergeErrors
      [] OTHER -> {}

\* C5: the step in which a run raises (in extract_text_from_pdf, in either
\* call_groq, or in the merge, validation and scoring that follow the second
\* call) leaves the job failed with progress 100, error the raised message and
\* data null, ends the run, answers no HTTP request and touches neither the
\* other jobs nor the stored files; and a run that ended before both calls
\* returned has left its job failed.
C5_FailureRecorded ==
    [][/\ \A r \in runs :
            LET id == r.contract_id
            IN  (r.pc # "done" /\ CONTRACTS'[id].status = "failed") =>
                   /\ CONTRACTS'[id].progress = 100
                   /\ CONTRACTS'[id].data = JNull
                   /\ \E message \in RaisedAt(r.pc) : CONTRACTS'[id].error = JStr(message)
                   /\ \A other \in Jobs \ {id} : CONTRACTS'[other] = CONTRACTS[other]
                   /\ \E done \in runs' : done.contract_id = id /\ done.pc = "done"
                   /\ response' = NoResponse
                   /\ UNCHANGED <<CONTRACT_FILES, disk>>
       /\ \A r \in runs' :
            (r.pc = "done" /\ r.returned < 2) => CONTRACTS'[r.contract_id].status = "failed"]_vars

\* a run failed in scoring, after both calls had returned, next to one that
\* failed in extract_text_from_pdf
C5_Witness ==
    \E a, b \in Jobs :
        /\ CONTRACTS[a].status = "failed" /\ CONTRACTS[a].progress = 100
        /\ CONTRACTS[a].data = JNull
        /\ CONTRACTS[a].error = JStr("unsupported operand type(s) for +=: 'float' and 'str'")
        /\ RunOf(a).returned = 2
        /\ CONTRACTS[b].status = "failed" /\ CONTRACTS[b].error \in {JStr(m) : m \in ExtractErrors}

\* the documents lines 254-273 can build from the results of the two calls
FinalDocuments ==
    {FinalDocument(r1, r2, major) :
        <<r1, r2, major>> \in
            {x \in Group1Results \X Group2Results \X PydanticMajors :
                ~MergeRaises(x[1], x[2], x[3])}}

\* what C6 says of a completed job
CompletedAsClaimed(job) ==
    /\ job.status = "completed"
    /\ job.progress = 100
    /\ job.data \in FinalDocuments
    /\ job.data["confidence_scores"] # Absent
    /\ job.data["gaps"] # Absent
    /\ job.data["score"] = JNum(compute_contract_score(job.data["confidence_scores"].d))

\* C6 as stated: once extract_text_from_pdf and both call_groq calls have
\* returned, the job is completed with progress 100 and stores the final merged
\* document, with confidence_scores, gaps and score =
\* compute_contract_score(confidence_scores of that document).
C6_Original ==
    \A r \in runs :
        (r.pc = "done" /\ r.returned = 2) => CompletedAsClaimed(CONTRACTS[r.contract_id])

\* C6 as amended: once extract_text_from_pdf and both call_groq calls have
\* returned, the job is completed as C6 says unless merging or scoring raised,
\* and then it is failed with that message and no data; every completed job
\* is as C6 says and comes of a run whose two calls returned.
C6_CompletedDocument ==
    /\ \A r \in runs :
          (r.pc = "done" /\ r.returned = 2) =>
              \/ CompletedAsClaimed(CONTRACTS[r.contract_id])
              \/ /\ CONTRACTS[r.contract_id].status = "failed"
                 /\ CONTRACTS[r.contract_id].error \in {JStr(m) : m \in MergeErrors}
                 /\ CONTRACTS[r.contract_id].data = JNull
    /\ \A id \in Jobs :
          CONTRACTS[id].status = "completed" =>
              CompletedAsClaimed(CONTRACTS[id]) /\ RunOf(id).returned = 2

\* a completed job whose stored confidence differs from the derived one, and
\* whose score is the rounded weighted sum of the stored ones
C6_Witness ==
    \E id \in Jobs :
        /\ CompletedAsClaimed(CONTRACTS[id])
        /\ CONTRACTS[id].data["confidence_scores"].d["sla_definition"] = JNum(3333)
        /\ CONTRACTS[id].data["score"] = JNum(90 * One)

---------------------------------------------------------------------------
(* Properties of the endpoints *)

\* C7: GET /contracts/{id} answers 404 for an unknown id, 400 for a job that is
\* pending, processing or failed, and for every completed job 200 with the
\* contract_id, the six category keys of the stored document, and its
\* confidence_scores, gaps and score.
C7_DataEndpoint ==
    \A id \in RequestIds :
        LET answer == ContractData(id)
        IN  /\ ~Known(id) => answer.status_code = 404
            /\ (Known(id) /\ CONTRACTS[id].status \in {"pending", "processing", "failed"})
                  => answer.status_code = 400
            /\ (Known(id) /\ CONTRACTS[id].status = "completed") =>
                  /\ answer.status_code = 200
                  /\ answer.contract_id = id
                  /\ DOMAIN answer.data = CategorySet
                  /\ \A k \in CategorySet : answer.data[k] = Get(CONTRACTS[id].data, k)
                  /\ answer.confidence_scores = CONTRACTS[id].data["confidence_scores"]
                  /\ answer.gaps = CONTRACTS[id].data["gaps"]
                  /\ answer.score = CONTRACTS[id].data["score"]

\* the file name ends in ".pdf", whatever the case of its letters
EndsInPdf(filename) ==
    LET n == Len(filename)
    IN  /\ n >= 4
        /\ filename[n - 3] = "."
        /\ filename[n - 2] \in {"p", "P"}
        /\ filename[n - 1] \in {"d", "D"}
        /\ filename[n] \in {"f", "F"}

\* C8: a step of POST /contracts/upload for a file name that does not end in
\* .pdf answers 400 and leaves the registry, the file registry and the
\* scheduled runs as they are; for one that does, it adds exactly one job, under
\* an id the registry did not hold, pending with progress 0 and no data and no
\* error, leaves the other jobs as they are, schedules exactly one run, for
\* that id, and answers 200 with that id.
C8_Upload ==
    [][\A filename \in Filenames :
          (\/ upload_contract_rejected(filename)
           \/ \E id \in JobIds : upload_contract_accepted(filename, id)) =>
             IF ~EndsInPdf(filename)
             THEN /\ response' = HTTPException(400, "Only PDF files are supported.")
                  /\ CONTRACTS' = CONTRACTS
                  /\ CONTRACT_FILES' = CONTRACT_FILES
                  /\ runs' = runs
             ELSE \E id \in JobIds :
                    /\ id \notin DOMAIN CONTRACTS
                    /\ DOMAIN CONTRACTS' = DOMAIN CONTRACTS \cup {id}
                    /\ \A other \in Jobs : CONTRACTS'[other] = CONTRACTS[other]
                    /\ CONTRACTS'[id].status = "pending"
                    /\ CONTRACTS'[id].progress = 0
                    /\ CONTRACTS'[id].data = JNull
                    /\ CONTRACTS'[id].error = JNull
                    /\ DOMAIN CONTRACT_FILES' = DOMAIN CONTRACT_FILES \cup {id}
                    /\ runs \subseteq runs'
                    /\ Cardinality(runs' \ runs) = 1
                    /\ \A r \in runs' \ runs : r.contract_id = id /\ r.pc = "start"
                    /\ Cardinality({r \in runs' : r.contract_id = id}) = 1
                    /\ response' = [kind |-> "upload", status_code |-> 200,
                                    contract_id |-> id]]_vars

\* the second upload has just been accepted: its job is new, the first job
\* has moved on
C8_Witness ==
    /\ response.kind = "upload"
    /\ Cardinality(Jobs) = 2
    /\ CONTRACTS[response.contract_id] = NewJob
    /\ \E other \in Jobs : CONTRACTS[other].status = "failed"

\* C10: GET /contracts answers 200 with one item for each job whose status is
\* the status parameter, and for each job when the parameter is missing or
\* empty; an item carries the job's status, and as score null when the job has no
\* data and the score of its data otherwise.
C10_List ==
    \A status \in StatusFilters :
        LET answer == ContractList(status)
            selected == IF status = JNull \/ status = JStr("") THEN Jobs
                        ELSE {id \in Jobs : CONTRACTS[id].status = status.s}
        IN  /\ answer.status_code = 200
            /\ {item.contract_id : item \in answer.items} = selected
            /\ Cardinality(answer.items) = Cardinality(selected)
            /\ \A item \in answer.items :
                  /\ item.status = CONTRACTS[item.contract_id].status
                  /\ item.score = IF CONTRACTS[item.contract_id].data = JNull THEN JNull
                                  ELSE CONTRACTS[item.contract_id].data["score"]

\* the list for status=completed has just been answered: it holds the one
\* completed job, with its score, and not the other job
C10_Witness ==
    /\ response = ContractList(JStr("completed"))
    /\ Cardinality(response.items) = 1
    /\ Cardinality(Jobs) = 2
    /\ \A item \in response.items : item.score = JNum(94 * One)

\* C11: every job of the registry has an entry in the file registry, from the
\* step that creates it and whatever its status, and GET
\* /contracts/{id}/download answers 200 with the stored PDF for it; the answer is
\* 404 only for an id that has no job and no file.
C11_Download ==
    /\ DOMAIN CONTRACT_FILES = DOMAIN CONTRACTS
    /\ \A id \in RequestIds :
          LET answer == FileDownload(id)
          IN  /\ Known(id) =>
                    /\ answer.status_code = 200
                    /\ answer.path = FilePath(id)
                    /\ answer.path \in disk
                    /\ answer.media_type = "application/pdf"
              /\ answer.status_code = 404 <=> ~Known(id)

\* the file of a job that is still pending has just been sent, while the other
\* job has already failed
C11_Witness ==
    /\ response.kind = "file"
    /\ response.status_code = 200
    /\ CONTRACTS[response.filename].status = "pending"
    /\ \E other \in Jobs : CONTRACTS[other].status = "failed"

---------------------------------------------------------------------------
(* Direct calls of the helpers: compute_contract_score and                 *)
(* derive_confidence_and_gaps are called with an argument, as              *)
(* test_helpers_compute_and_derive calls them, and return                  *)

\* the longest category dict among the arguments
MaxLen == 2

NotReturned == [t |-> "pending"]
Raised(message) == [t |-> "raise", message |-> message]

\* arguments of compute_contract_score: each scoring key is missing or holds a
\* float of [0, 1]
UnitValues == {JNum(0), JNum(2000), JNum(3332), JNum(5000), JNum(One)}
ScoreInputs == [ScoreKeys -> UnitValues \cup {Absent}]

\* a dict of n values, the first m of them non-empty, the others empty in the
\* four ways line 123 knows
EmptyEntries == <<JNull, JStr(""), JList(<<>>), JDict(<<>>)>>
DictOf(n, m) ==
    JDict([i \in 1..n |-> IF i <= m THEN JStr("Foo")
                          ELSE EmptyEntries[((i - 1) % Len(EmptyEntries)) + 1]])

\* values of a category field
FieldValues ==
    {Absent, JNull, JStr(""), JStr(" "), JStr("Net 30"),
     JList(<<>>), JList(<<JStr("Foo")>>), JNum(0), JNum(200 * One)}
        \cup {DictOf(x[1], x[2]) : x \in {y \in (0..MaxLen) \X (0..MaxLen) : y[2] <= y[1]}}
\* the values that tell the branches of lines 113-131 apart
BranchValues == {Absent, JNull, JStr(" "), JDict(<<>>), JDict(<<JStr("Foo")>>)}

\* values of one entry of confidence_scores
SuppliedValues ==
    {JNull, JNum(0 - 5000), JNum(3332), JNum(6000), JNum(One), JNum(15000),
     JStr("0.8"), JStr("high")}

MappedFields == {mapping[k] : k \in ScoreKeys}

\* the document of test_helpers_compute_and_derive
sample_extracted ==
    [EmptyDoc EXCEPT !["financial_details"] = JDict(<<JNum(200 * One), JNum(20 * One)>>),
                     !["party_identification"] = JDict(<<JStr("Foo")>>),
                     !["payment_structure"] = JStr("Net 30"),
                     !["service_level_agreements"] = JDict(<<>>),
                     !["account_information"] = JNull,
                     !["confidence_scores"] = Conf("payment_terms_clarity", JNum(6000))]

\* arguments of derive_confidence_and_gaps: every way the five fields take
\* the branches, without confidence_scores; and, around sample_extracted, every
\* value of one field with every value of the confidence of its category
DeriveInputs ==
    {[k \in DocKeys |-> IF k \in MappedFields THEN f[k] ELSE Absent] :
        f \in [MappedFields -> BranchValues]}
    \cup {[sample_extracted EXCEPT ![mapping[k]] = v, !["confidence_scores"] = c] :
            <<k, v, c>> \in
                {x \in ScoreKeys \X FieldValues \X
                        ({Absent, JNull, ConfDict(NoConf)}
                            \cup {Conf(key, y) : key \in ScoreKeys, y \in SuppliedValues}) :
                    x[3].t = "conf" => \A other \in ScoreKeys \ {x[1]} : x[3].d[other] = Absent}}

\* results of the two call_groq calls when process_contract is run with
\* call_groq replaced, as test_process_flow replaces it by fake_call_groq:
\* around the test's two results, a category that is missing, null, a string or
\* an empty dict, confidences inside and outside [0, 1] or given as a string,
\* and gaps that are missing, null, empty or not
FakeGroup1Results ==
    {Mapping([Group1Full EXCEPT !["party_identification"] = x[1],
                                !["confidence_scores"] = x[2],
                                !["gaps"] = x[3]]) :
        x \in {JDict(<<JStr("ACME Corp")>>), JNull, JStr("ACME Corp"), Absent}
              \X {Absent, Conf("financial_completeness", JNum(8000)),
                  Conf("party_identification", JNum(15000)),
                  Conf("party_identification", JStr("0.8"))}
              \X {Absent, JList(<<"signature_date">>)}}
    \cup {JList(<<>>)}
FakeGroup2Results ==
    {Mapping([Group2Full EXCEPT !["payment_structure"] = x[1],
                                !["revenue_classification"] = x[2],
                                !["confidence_scores"] = x[3],
                                !["gaps"] = x[4]]) :
        x \in {JDict(<<JStr("Net 30")>>), JStr("Net 30"), JDict(<<>>)}
              \X {JDict(<<JStr("recurring")>>), Absent}
              \X {Absent, JNull, Conf("sla_definition", JNum(3332)),
                  Conf("payment_terms_clarity", JNum(0 - 5000)),
                  Conf("financial_completeness", JNum(4000))}
              \X {Absent, JNull, JList(<<>>), JList(<<"late_fees">>)}}

\* the job when line 250 is reached
JobAtGroupCalls == TextExtracted(Started(NewJob))

ProcessCall(extracted1, extracted2, major) ==
    [fn |-> "process_contract",
     args |-> [extracted1 |-> extracted1, extracted2 |-> extracted2, pydantic |-> major],
     result |-> NotReturned]

ScoreCall(confidence_scores) ==
    [fn |-> "compute_contract_score", args |-> confidence_scores, result |-> NotReturned]
DeriveCall(extracted) ==
    [fn |-> "derive_confidence_and_gaps", args |-> extracted, result |-> NotReturned]

HelperCalls ==
    {ScoreCall(c) : c \in ScoreInputs}
    \cup {DeriveCall(d) : d \in DeriveInputs}
    \cup {ProcessCall(x[1], x[2], x[3]) :
            x \in FakeGroup1Results \X FakeGroup2Results \X PydanticMajors}

\* total = module.compute_contract_score(test_scores)
call_compute_contract_score ==
    /\ call.fn = "compute_contract_score"
    /\ call.result = NotReturned
    /\ call' = [call EXCEPT !.result =
                    IF compute_contract_score_raises(call.args)
                    THEN Raised(ScoreMessage(call.args, 1))
                    ELSE JNum(compute_contract_score(call.args))]
    /\ UNCHANGED <<CONTRACTS, CONTRACT_FILES, disk, runs, response>>

\* scores, gaps = module.derive_confidence_and_gaps(sample_extracted)
call_derive_confidence_and_gaps ==
    /\ call.fn = "derive_confidence_and_gaps"
    /\ call.result = NotReturned
    /\ call' = [call EXCEPT !.result = derive_confidence_and_gaps(call.args)]
    /\ UNCHANGED <<CONTRACTS, CONTRACT_FILES, disk, runs, response>>

\* process_contract with both call_groq calls returning: lines 254-281, the
\* result being the job record they leave
call_process_contract ==
    /\ call.fn = "process_contract"
    /\ call.result = NotReturned
    /\ LET extracted1 == call.args.extracted1
           extracted2 == call.args.extracted2
           major == call.args.pydantic
       IN  call' = [call EXCEPT !.result =
                       IF MergeRaises(extracted1, extracted2, major)
                       THEN Failed(JobAtGroupCalls,
                                   MergeMessage(extracted1, extracted2, major))
                       ELSE Completed(JobAtGroupCalls,
                                      FinalDocument(extracted1, extracted2, major))]
    /\ UNCHANGED <<CONTRACTS, CONTRACT_FILES, disk, runs, response>>

HelperInit ==
    /\ CONTRACTS = <<>>
    /\ CONTRACT_FILES = <<>>
    /\ disk = {}
    /\ runs = {}
    /\ response = NoResponse
    /\ call \in HelperCalls

HelperNext ==
    \/ call_compute_contract_score
    \/ call_derive_confidence_and_gaps
    \/ call_process_contract

HelperSpec == HelperInit /\ [][HelperNext]_vars

---------------------------------------------------------------------------
(* Properties of the helpers *)

Returned(fn) == call.fn = fn /\ call.result # NotReturned

\* the value a scoring key contributes: 0 when the key is missing
Contribution(confidence_scores, key) ==
    IF confidence_scores[key] = Absent THEN 0 ELSE confidence_scores[key].v

\* the sum with the weights 30, 25, 20, 15, 10, in units of 1/One of a point
ClaimedSum(confidence_scores) ==
    30 * Contribution(confidence_scores, "financial_completeness")
    + 25 * Contribution(confidence_scores, "party_identification")
    + 20 * Contribution(confidence_scores, "payment_terms_clarity")
    + 15 * Contribution(confidence_scores, "sla_definition")
    + 10 * Contribution(confidence_scores, "contact_information")

Distance(a, b) == IF a >= b THEN a - b ELSE b - a

\* C12 as stated: for scoring values in [0, 1], compute_contract_score returns
\* a value in [0, 100] that is equal to the sum with the weights 30, 25, 20, 15,
\* 10, a missing category counting 0.
C12_Original ==
    Returned("compute_contract_score") =>
        /\ call.result.t = "num"
        /\ call.result.v \in 0..(100 * One)
        /\ call.result.v = ClaimedSum(call.args)

\* C12 as amended: for scoring values in [0, 1], compute_contract_score returns
\* a value in [0, 100] that is the sum with the weights 30, 25, 20, 15, 10, a
\* missing category counting 0, rounded to two decimals: a multiple of 0.01 no
\* further than 0.005 from that sum.
C12_WeightedSumRounded ==
    Returned("compute_contract_score") =>
        /\ call.result.t = "num"
        /\ call.result.v \in 0..(100 * One)
        /\ call.result.v % (One \div 100) = 0
        /\ 2 * Distance(call.result.v, ClaimedSum(call.args)) <= One \div 100

\* the call has returned 20.0 for financial_completeness 0.5 and
\* sla_definition 0.3332, the other three categories missing: 15 + 4.998
C12_Witness ==
    /\ Returned("compute_contract_score")
    /\ call.args = [NoConf EXCEPT !["financial_completeness"] = JNum(5000),
                                  !["sla_definition"] = JNum(3332)]
    /\ call.result = JNum(20 * One)

\* the source fields in the order the claim gives
FieldOrder == <<"financial_details", "party_identification", "payment_structure",
                "service_level_agreements", "account_information">>
CategoryOfField ==
    [financial_details |-> "financial_completeness",
     party_identification |-> "party_identification",
     payment_structure |-> "payment_terms_clarity",
     service_level_agreements |-> "sla_definition",
     account_information |-> "contact_information"]

\* the field is absent, null or an empty mapping
MissingField(extracted, field) ==
    \/ extracted[field] = Absent
    \/ extracted[field] = JNull
    \/ extracted[field] = JDict(<<>>)

\* the string is empty or whitespace only
BlankString(v) == v.t = "str" /\ v.s \in {"", " "}

\* C13: the gaps derive_confidence_and_gaps returns are exactly the source
\* fields that are absent, null or an empty mapping, each once, in the order
\* financial_details, party_identification, payment_structure,
\* service_level_agreements, account_information; a field holding a string or a
\* non-empty mapping is no gap, and a field holding an empty or whitespace-only
\* string scores 0.0 (when no confidence is supplied for it) without being one.
C13_Gaps ==
    Returned("derive_confidence_and_gaps") =>
        LET extracted == call.args
            gaps == call.result.gaps
            IsMissing(field) == MissingField(extracted, field)
            InGaps(field) == \E i \in 1..Len(gaps) : gaps[i] = field
        IN  /\ gaps = SelectSeq(FieldOrder, IsMissing)
            /\ \A i, j \in 1..Len(gaps) : gaps[i] = gaps[j] => i = j
            /\ \A field \in MappedFields :
                  /\ extracted[field].t = "str" => ~InGaps(field)
                  /\ (extracted[field].t = "dict" /\ Len(extracted[field].vals) > 0)
                        => ~InGaps(field)
                  /\ (BlankString(extracted[field]) /\ extracted["confidence_scores"] = Absent)
                        => call.result.scores[CategoryOfField[field]] = JNum(0)

\* the call returned for sample_extracted with a whitespace-only
\* payment_structure and no confidence_scores: the two gaps in order, and 0.0
\* for payment_terms_clarity
C13_Witness ==
    /\ Returned("derive_confidence_and_gaps")
    /\ call.args = [sample_extracted EXCEPT !["payment_structure"] = JStr(" "),
                                            !["confidence_scores"] = Absent]
    /\ call.result.gaps = <<"service_level_agreements", "account_information">>
    /\ call.result.scores["payment_terms_clarity"] = JNum(0)

\* the confidence the argument supplies for a category parses as a float
SuppliedParses(extracted, key) ==
    /\ extracted["confidence_scores"].t = "conf"
    /\ \/ extracted["confidence_scores"].d[key].t = "num"
       \/ extracted["confidence_scores"].d[key] = JStr("0.8")
SuppliedFloat(extracted, key) ==
    LET x == extracted["confidence_scores"].d[key]
    IN  IF x.t = "num" THEN Rat(x.v, One) ELSE Rat(8, 10)

\* what the claim gives as the score of a category
ClaimedScore(extracted, key) ==
    LET derived == Derived(Get(extracted, mapping[key]))
    IN  IF SuppliedParses(extracted, key)
        THEN RatMax(Rat(0, 1), RatMin(Rat(1, 1), RatMax(derived, SuppliedFloat(extracted, key))))
        ELSE derived

\* C14 as stated: derive_confidence_and_gaps returns for each of the five
\* scoring categories a score in [0, 1] that is max(derived, supplied) clamped to
\* [0, 1] when the argument supplies a parseable confidence for the category,
\* and the derived value otherwise.
C14_Original ==
    Returned("derive_confidence_and_gaps") =>
        /\ DOMAIN call.result.scores = ScoreKeys
        /\ \A key \in ScoreKeys :
              LET score == call.result.scores[key]
                  claimed == ClaimedScore(call.args, key)
              IN  /\ score.t = "num"
                  /\ score.v \in 0..One
                  /\ score.v * claimed.d = claimed.n * One

\* C14 as amended: derive_confidence_and_gaps returns for each of the five
\* scoring categories a score in [0, 1] that is, rounded to three decimals (a
\* multiple of 0.001 no further than 0.0005 from it), max(derived, supplied)
\* clamped to [0, 1] when the argument supplies a parseable confidence for the
\* category, and the derived value otherwise.
C14_ScoresRounded ==
    Returned("derive_confidence_and_gaps") =>
        /\ DOMAIN call.result.scores = ScoreKeys
        /\ \A key \in ScoreKeys :
              LET score == call.result.scores[key]
                  claimed == ClaimedScore(call.args, key)
              IN  /\ score.t = "num"
                  /\ score.v \in 0..One
                  /\ score.v % (One \div 1000) = 0
                  /\ 2 * Distance(score.v * claimed.d, claimed.n * One)
                        <= (One \div 1000) * claimed.d

\* the call returned for a document whose payment_structure is null and whose
\* supplied payment_terms_clarity is 0.3332: 0.333 for it, and the derived
\* values for the categories without a supplied confidence
C14_Witness ==
    /\ Returned("derive_confidence_and_gaps")
    /\ call.args = [sample_extracted EXCEPT
                      !["payment_structure"] = JNull,
                      !["confidence_scores"] = Conf("payment_terms_clarity", JNum(3332))]
    /\ call.result.scores["payment_terms_clarity"] = JNum(3330)
    /\ call.result.scores["sla_definition"] = JNum(0)
    /\ call.result.scores["party_identification"] = JNum(One)

---------------------------------------------------------------------------
(* Properties of the stored document *)

\* C15: the document of every completed job holds all six category keys
\* (party_identification, account_information, financial_details,
\* payment_structure, revenue_classification, service_level_agreements), each
\* with a value or null, whatever the two call_groq results held.
C15_SixKeys ==
    \A id \in Jobs :
        CONTRACTS[id].status = "completed" =>
            \A key \in CategorySet : CONTRACTS[id].data[key] # Absent

\* process_contract has run with both calls returning and has completed the job
Merged == Returned("process_contract") /\ call.result.status = "completed"

\* C16: in the document of every completed job each value of confidence_scores
\* lies in [0, 1] and score lies in [0, 100], whatever confidences the
\* call_groq results supplied.
C16_StoredRanges ==
    Merged =>
        LET data == call.result.data
        IN  /\ \A key \in ScoreKeys :
                  data["confidence_scores"].d[key] # Absent =>
                      /\ data["confidence_scores"].d[key].t = "num"
                      /\ data["confidence_scores"].d[key].v \in 0..One
            /\ data["score"].t = "num"
            /\ data["score"].v \in 0..(100 * One)

\* the union of the two call_groq results, the second winning
MergedLlmDocument == Combine(call.args.extracted1.doc, call.args.extracted2.doc)

\* the confidence_scores entry the union carries for a category, if any
PreExisting(key) ==
    IF MergedLlmDocument["confidence_scores"].t = "conf"
    THEN MergedLlmDocument["confidence_scores"].d[key]
    ELSE Absent

\* C17: in the document of a completed job, the confidence stored for a
\* scoring category is the entry the merged call_groq results carry for it (as a
\* float), also when the value derive_confidence_and_gaps returns for it is
\* higher, and is the value derive_confidence_and_gaps returns when they carry
\* none.
C17_PreExistingWins ==
    Merged =>
        \A key \in ScoreKeys :
            LET stored == call.result.data["confidence_scores"].d[key]
                derived == derive_confidence_and_gaps(MergedLlmDocument).scores[key]
            IN  IF PreExisting(key) # Absent
                THEN stored = JNum(FloatOf(PreExisting(key)))
                ELSE stored = derived

\* a completed job stores the 0.3332 the second result gave for sla_definition,
\* though the derived value is 1.0, and the derived 1.0 for a category without
\* an entry
C17_Witness ==
    /\ Merged
    /\ PreExisting("sla_definition") = JNum(3332)
    /\ derive_confidence_and_gaps(MergedLlmDocument).scores["sla_definition"] = JNum(One)
    /\ call.result.data["confidence_scores"].d["sla_definition"] = JNum(3332)
    /\ PreExisting("party_identification") = Absent
    /\ call.result.data["confidence_scores"].d["party_identification"] = JNum(One)

\* C18: in the document of a completed job, gaps is the list
\* derive_confidence_and_gaps returns when that list is not empty; otherwise it
\* is the gaps value the merged call_groq results carry, and the empty list,
\* not null, when they carry none.
C18_StoredGaps ==
    Merged =>
        LET derived_gaps == derive_confidence_and_gaps(MergedLlmDocument).gaps
            present == MergedLlmDocument["gaps"]
            stored == call.result.data["gaps"]
        IN  IF Len(derived_gaps) > 0 THEN stored = JList(derived_gaps)
            ELSE IF present = Absent THEN stored = JList(<<>>)
            ELSE stored = present

\* a job completed on the unvalidated union (payment_structure is a string)
\* with no field missing and no gaps key in either result: it stores the empty
\* list
C18_Witness ==
    /\ Merged
    /\ MergedLlmDocument["payment_structure"] = JStr("Net 30")
    /\ derive_confidence_and_gaps(MergedLlmDocument).gaps = <<>>
    /\ MergedLlmDocument["gaps"] = Absent
    /\ call.result.data["gaps"] = JList(<<>>)

---------------------------------------------------------------------------
(* Properties of the runs *)

\* C19: a step that changes a job's record is a step of the one run scheduled
\* for that job, leaves the record of every other job and every other run as
\* they are, and answers no HTTP request; so the steps of the handlers (status,
\* data, list, download, upload) change no existing record; and no record leaves
\* the registry.
C19_JobIsolation ==
    [][/\ \A id \in Jobs :
             /\ id \in DOMAIN CONTRACTS'
             /\ Cardinality({r \in runs : r.contract_id = id}) = 1
             /\ CONTRACTS'[id] # CONTRACTS[id] =>
                   /\ RunOf(id).pc # "done"
                   /\ RunOf(id) \notin runs'
                   /\ \A other \in Jobs \ {id} : CONTRACTS'[other] = CONTRACTS[other]
                   /\ \A r \in runs : r.contract_id # id => r \in runs'
                   /\ response' = NoResponse
       /\ response' # NoResponse => \A id \in Jobs : CONTRACTS'[id] = CONTRACTS[id]]_vars

\* two runs are under way at once, one before its first call_groq call, the
\* other between its two calls
C19_Witness ==
    \E a, b \in Jobs :
        /\ RunOf(a).pc = "group1" /\ CONTRACTS[a].status = "processing"
        /\ RunOf(b).pc = "group2" /\ CONTRACTS[b].status = "processing"

\* the places of process_contract, in the order of the code
PcRank(pc) ==
    CASE pc = "start" -> 0
      [] pc = "extract" -> 1
      [] pc = "group1" -> 2
      [] pc = "group2" -> 3
      [] pc = "done" -> 4

\* C20: a run never goes back to a place it has left, so the text is extracted
\* at most once and no call is repeated; it makes at most two call_groq calls,
\* the first at group1 and the second at group2, where it stands only when the
\* first call has returned; the merge (which completes the job, or fails it with
\* a message of the merge) runs only when both calls have returned; and a
\* completed job's run has made exactly two calls.
C20_NoRetry ==
    [][/\ \A r \in runs :
             \E n \in runs' :
                LET id == r.contract_id
                IN  /\ n.contract_id = id
                    /\ n = r \/ PcRank(n.pc) > PcRank(r.pc)
                    /\ n.calls \in {r.calls, r.calls + 1}
                    /\ n.calls <= 2
                    /\ n.calls = r.calls + 1 =>
                          \/ r.pc = "group1" /\ r.calls = 0
                          \/ r.pc = "group2" /\ r.calls = 1 /\ r.returned = 1
                    /\ (CONTRACTS'[id].progress = 40 /\ CONTRACTS[id].progress # 40)
                          => r.pc = "extract"
                    /\ n.pc = "group2" => n.calls = 1 /\ n.returned = 1
                    /\ (CONTRACTS'[id] # CONTRACTS[id]
                            /\ \/ CONTRACTS'[id].status = "completed"
                               \/ CONTRACTS'[id].error \in {JStr(m) : m \in MergeErrors})
                          => r.pc = "group2" /\ r.returned = 1 /\ n.returned = 2
       /\ \A n \in runs' :
             CONTRACTS'[n.contract_id].status = "completed" => n.calls = 2]_vars

\* one run has completed its job with two calls, another has ended after a
\* single call that raised
C20_Witness ==
    \E a, b \in Jobs :
        /\ CONTRACTS[a].status = "completed" /\ RunOf(a).calls = 2
        /\ CONTRACTS[b].status = "failed" /\ RunOf(b).calls = 1 /\ RunOf(b).returned = 0

\* C21: under FairSpec, where every scheduled run is resumed and
\* extract_text_from_pdf and every call_groq call end, each job of the registry
\* eventually is completed or failed with progress 100; and a job that is
\* processing always has its run waiting at extract_text_from_pdf or at a
\* call_groq call, so it stays processing only as long as that call has not ended.
C21_Termination ==
    /\ [](\A id \in Jobs :
            CONTRACTS[id].status = "processing" =>
                RunOf(id).pc \in {"extract", "group1", "group2"})
    /\ \A id \in JobIds :
          (id \in Jobs) ~>
              (/\ id \in Jobs
               /\ CONTRACTS[id].status \in {"completed", "failed"}
               /\ CONTRACTS[id].progress = 100)

\* every job of a full registry has ended, each run having returned
C21_Witness ==
    /\ Cardinality(Jobs) = MaxJobs
    /\ \A id \in Jobs :
          /\ CONTRACTS[id].status \in {"completed", "failed"}
          /\ CONTRACTS[id].progress = 100
          /\ RunOf(id).pc = "done"

=============================================================================
